---- MODULE Spec2Model ----
(***************************************************************************)
(* redisqueue: queues (FifoQueue, LifoQueue, PriorityQueue), the duplicate *)
(* filter (RFPDupeFilter) and the schedulers built on them, as a state     *)
(* machine over a shared redis server.  Every redis command is one atomic  *)
(* step of the server; client processes interleave between commands.       *)
(***************************************************************************)
EXTENDS Integers, Sequences, FiniteSets, TLC

(* ------------------------------ bounds --------------------------------- *)
\* number of client processes sharing the server
NumProcs == 2
\* highest task priority (priorities are 1..MaxPrio)
MaxPrio == 3
\* push commands per queue key between two DELs of the key
MaxPush == 3
\* SADD commands recorded on the dupefilter key
MaxSeen == 3
\* DEL commands recorded on the dupefilter key
MaxClear == 1
\* largest pop timeout a caller passes (0 = non-blocking)
MaxTimeout == 1
\* enqueue calls on the two keys of a PipeScheduler
MaxPipePush == 2
\* pushes per key in the blocking-pop and the lifecycle specifications
MaxProduce == 2
\* pushes per key of bytes written with another serializer
MaxForeign == 1

Procs == 1..NumProcs
Bodies == {0, 1}
Priorities == 1..MaxPrio
Timeouts == 0..MaxTimeout

\* task records handed to the queues: a payload and a priority attribute
\* (payload 0 at every priority, payload 1 at the lowest one)
Task == {t \in [body : Bodies, priority : Priorities] : t.body = 0 \/ t.priority = 1}
\* the tasks of the scheduler-level specifications: an empty payload, and a
\* non-empty payload at two priorities
SchedTask ==
  {t \in [body : Bodies, priority : Priorities] :
     t.priority <= 2 /\ (t.body = 1 \/ t.priority = 1)}
None == "None"
\* the key of a plain queue / of a Scheduler's queue
QKeys == {"queue"}
\* the two keys of a PipeScheduler
queue_in_key == "queue_in"
queue_out_key == "queue_out"
PipeKeys == {queue_in_key, queue_out_key}
Keys == QKeys \cup PipeKeys
QueueClasses == {"FifoQueue", "LifoQueue", "PriorityQueue"}

(* ------------------------------ codec ---------------------------------- *)
\* serializer.dumps: the task as a non-empty byte string
Dumps(obj) == <<obj.body, obj.priority>>
\* serializer.loads: the task a byte string encodes
Loads(data) == [body |-> data[1], priority |-> data[2]]

\* serializer.loads raises on a byte string that encodes no task
Decodable(data) == Len(data) = 2
\* byte strings another serializer's dumps produces and this one's loads
\* cannot decode: the empty string and a non-empty one
ForeignBytes == {<<>>, <<9>>}

Base_serialize(obj) == Dumps(obj)
Base_unserialize(serialized_obj) == Loads(serialized_obj)

\* utils.obj_fingerprint: tasks with the same payload are duplicates
obj_fingerprint(obj) == <<obj.body>>

\* python truth value of a byte string / of a list of results
TruthyData(data) == data # None /\ Len(data) > 0

(* --------------------------- redis commands ---------------------------- *)
\* LPUSH: insert at the left end (index 1)
LPush(l, v) == <<v>> \o l
\* RPOP / LPOP: [value, rest]; value None on an empty list
RPop(l) ==
  IF l = <<>> THEN [value |-> None, rest |-> l]
  ELSE [value |-> l[Len(l)], rest |-> SubSeq(l, 1, Len(l) - 1)]
LPop(l) ==
  IF l = <<>> THEN [value |-> None, rest |-> l]
  ELSE [value |-> Head(l), rest |-> Tail(l)]

\* byte strings compare lexicographically (memcmp, then length)
BytesLess(a, b) ==
  \/ \E i \in 1..Len(a) :
        /\ i <= Len(b)
        /\ a[i] < b[i]
        /\ \A j \in 1..(i - 1) : a[j] = b[j]
  \/ /\ Len(a) < Len(b)
     /\ \A j \in 1..Len(a) : a[j] = b[j]

\* sorted-set order: by score, ties by member bytes
ZLess(e, f) ==
  \/ e.score < f.score
  \/ e.score = f.score /\ BytesLess(e.member, f.member)

\* ZADD key score member: members are unique, an existing member is rescored
ZAdd(z, score, member) ==
  {e \in z : e.member # member} \cup {[score |-> score, member |-> member]}

\* the element of rank 0
ZFirst(z) == CHOOSE e \in z : \A f \in z : f = e \/ ZLess(e, f)
\* ZRANGE key 0 0: list of at most one member
ZRange00(z) == IF z = {} THEN <<>> ELSE <<ZFirst(z).member>>
\* ZREMRANGEBYRANK key 0 0: [rest, count]
ZRemRangeByRank00(z) ==
  IF z = {} THEN [rest |-> z, count |-> 0]
  ELSE [rest |-> z \ {ZFirst(z)}, count |-> 1]

\* SADD key member: [set, added]
SAdd(s, member) ==
  [set |-> s \cup {member}, added |-> IF member \in s THEN 0 ELSE 1]

(* ------------------------------- state --------------------------------- *)
VARIABLES
  cls,      \* queue class configured for each queue key
  lists,    \* redis lists, by key (index 1 is the left end)
  zsets,    \* redis sorted sets, by key
  df,       \* redis set under the dupefilter key
  waiters,  \* clients blocked in BRPOP/BLPOP on each key, oldest first
  pc,       \* position of each client process inside a multi-command call
  obj,      \* the task a process holds between two commands of one call
  qlog,     \* per key: push / pop events since its last DEL, in server order
  dflog,    \* obj_seen / clear events on the dupefilter key, in server order
  enqlog,   \* completed DupeFilterScheduler.enqueue calls with their result
  life,     \* each process's scheduler object: created, opened or closed
  conf,     \* the settings the schedulers are constructed from
  ret,      \* the scheduler call that returned last, with its result
  timer     \* per process: the timeout of its last pop and the seconds it waited

vars == <<cls, lists, zsets, df, waiters, pc, obj, qlog, dflog, enqlog,
          life, conf, ret, timer>>
\* the state of the scheduler objects and of the clock
sched == <<life, conf, ret, timer>>

Ev(op, o) == [op |-> op, obj |-> o]
\* a pop that removed bytes and raised the error of serializer.loads
DecodeErrorEv(data) == [op |-> "error", obj |-> [bytes |-> data]]
\* a push that stored the bytes of another serializer
ForeignEv(data) == [op |-> "foreign", obj |-> [bytes |-> data]]
NumOp(log, op) == Cardinality({i \in 1..Len(log) : log[i].op = op})

\* the objs of the events with the given op, in order
RECURSIVE Objs(_, _)
Objs(log, op) ==
  IF log = <<>> THEN <<>>
  ELSE IF Head(log).op = op THEN <<Head(log).obj>> \o Objs(Tail(log), op)
  ELSE Objs(Tail(log), op)

Pushed(k) == Objs(qlog[k], "push")
Popped(k) == Objs(qlog[k], "pop")

\* a call's result: res is "True", "False", "None", "item" or "error"
Ret(op, res) == [op |-> op, res |-> res]
NoCall == Ret("none", "None")
\* the result of a queue's pop(timeout)
PopRet(timeout, res) == [op |-> "pop", res |-> res, timeout |-> timeout]
SchedulerClasses == {"Scheduler", "PipeScheduler", "DupeFilterScheduler"}
\* a scheduler class with the defaults of its __init__
DefaultConf(scheduler) ==
  [scheduler |-> scheduler, persist |-> TRUE, flush_on_start |-> FALSE,
   idle_before_close |-> 0]
Confs ==
  [scheduler : SchedulerClasses, persist : BOOLEAN, flush_on_start : BOOLEAN,
   idle_before_close : Timeouts]

NoTimer == [timeout |-> 0, waited |-> 0]

\* empty keys, no call in progress
EmptyStore ==
  /\ lists = [k \in Keys |-> <<>>]
  /\ zsets = [k \in Keys |-> {}]
  /\ df = {}
  /\ waiters = [k \in Keys |-> <<>>]
  /\ pc = [p \in Procs |-> "idle"]
  /\ obj = [p \in Procs |-> None]
  /\ qlog = [k \in Keys |-> <<>>]
  /\ dflog = <<>>
  /\ enqlog = <<>>
  /\ ret = NoCall
  /\ timer = [p \in Procs |-> NoTimer]

\* every process holds an opened queue / scheduler on the key "queue"
Init ==
  /\ cls \in {c \in [Keys -> QueueClasses] : \A k \in PipeKeys : c[k] = "FifoQueue"}
  /\ EmptyStore
  /\ life = [p \in Procs |-> "opened"]
  /\ conf = DefaultConf("DupeFilterScheduler")

(* --------------------------- queue layer ------------------------------- *)
\* __len__ of the three queue classes
FifoQueue_len(k) == Len(lists[k])
LifoQueue_len(k) == Len(lists[k])
PriorityQueue_len(k) == Cardinality(zsets[k])
Queue_len(k) ==
  CASE cls[k] = "FifoQueue" -> FifoQueue_len(k)
    [] cls[k] = "LifoQueue" -> LifoQueue_len(k)
    [] cls[k] = "PriorityQueue" -> PriorityQueue_len(k)

\* self._unserialize(data) as a pop ends: the task is returned, or the
\* error serializer.loads raised leaves pop
Unserialized(data) ==
  IF Decodable(data) THEN <<Ev("pop", Base_unserialize(data))>>
  ELSE <<DecodeErrorEv(data)>>

\* what a pop logs: `if data: return self._unserialize(data)`
PopEvents(data) ==
  IF TruthyData(data) THEN Unserialized(data) ELSE <<>>

\* the server serves clients blocked on a list, oldest first, while it has
\* elements: BRPOP takes the right end, BLPOP the left end
RECURSIVE ServeBlocked(_, _)
ServeBlocked(l, w) ==
  IF l = <<>> \/ w = <<>> THEN [list |-> l, waiters |-> w, events |-> <<>>]
  ELSE LET r == IF Head(w).cmd = "brpop" THEN RPop(l) ELSE LPop(l)
           s == ServeBlocked(r.rest, Tail(w))
       IN [list |-> s.list, waiters |-> s.waiters,
           events |-> PopEvents(r.value) \o s.events]

\* LPUSH as the server runs it: the insert, then the blocked clients
ListPush(k, o, data) ==
  LET s == ServeBlocked(LPush(lists[k], data), waiters[k])
  IN /\ lists' = [lists EXCEPT ![k] = s.list]
     /\ waiters' = [waiters EXCEPT ![k] = s.waiters]
     /\ qlog' = [qlog EXCEPT ![k] = (@ \o <<Ev("push", o)>>) \o s.events]
     /\ UNCHANGED zsets

FifoQueue_push(k, o) == ListPush(k, o, Base_serialize(o))

LifoQueue_push(k, o) == ListPush(k, o, Base_serialize(o))

\* faulty variant: the score is the priority itself, not its negation
PriorityQueue_push_posscore(k, o) ==
  LET data == Base_serialize(o)
      score == o.priority
  IN /\ zsets' = [zsets EXCEPT ![k] = ZAdd(@, score, data)]
     /\ qlog' = [qlog EXCEPT ![k] = Append(@, Ev("push", o))]
     /\ UNCHANGED <<lists, waiters>>

PriorityQueue_push(k, o) ==
  LET data == Base_serialize(o)
      score == 0 - o.priority
  IN /\ zsets' = [zsets EXCEPT ![k] = ZAdd(@, score, data)]
     /\ qlog' = [qlog EXCEPT ![k] = Append(@, Ev("push", o))]
     /\ UNCHANGED <<lists, waiters>>

\* a pop that blocks: the client waits on the key
Block(p, k, cmd) ==
  /\ waiters' = [waiters EXCEPT ![k] = Append(@, [proc |-> p, cmd |-> cmd])]
  /\ UNCHANGED <<lists, zsets, qlog>>

\* faulty variant: the pop takes the end the push inserts at
FifoQueue_pop_lpop(p, k, timeout) ==
  IF timeout > 0 /\ lists[k] = <<>>
  THEN Block(p, k, "blpop")
  ELSE LET r == LPop(lists[k])
       IN /\ lists' = [lists EXCEPT ![k] = r.rest]
          /\ qlog' = [qlog EXCEPT ![k] = @ \o PopEvents(r.value)]
          /\ UNCHANGED <<zsets, waiters>>

\* faulty variant: BRPOP also for timeout = 0, which the server takes as "wait for ever"
FifoQueue_pop_brpop0(p, k, timeout) ==
  IF lists[k] = <<>>
  THEN Block(p, k, "brpop")
  ELSE LET r == RPop(lists[k])
       IN /\ lists' = [lists EXCEPT ![k] = r.rest]
          /\ qlog' = [qlog EXCEPT ![k] = @ \o PopEvents(r.value)]
          /\ UNCHANGED <<zsets, waiters>>

FifoQueue_pop(p, k, timeout) ==
  IF timeout > 0 /\ lists[k] = <<>>
  THEN Block(p, k, "brpop")
  ELSE LET r == RPop(lists[k])
       IN /\ lists' = [lists EXCEPT ![k] = r.rest]
          /\ qlog' = [qlog EXCEPT ![k] = @ \o PopEvents(r.value)]
          /\ UNCHANGED <<zsets, waiters>>

\* faulty variant: the pop takes the end opposite to the push
LifoQueue_pop_rpop(p, k, timeout) ==
  IF timeout > 0 /\ lists[k] = <<>>
  THEN Block(p, k, "brpop")
  ELSE LET r == RPop(lists[k])
       IN /\ lists' = [lists EXCEPT ![k] = r.rest]
          /\ qlog' = [qlog EXCEPT ![k] = @ \o PopEvents(r.value)]
          /\ UNCHANGED <<zsets, waiters>>

LifoQueue_pop(p, k, timeout) ==
  IF timeout > 0 /\ lists[k] = <<>>
  THEN Block(p, k, "blpop")
  ELSE LET r == LPop(lists[k])
       IN /\ lists' = [lists EXCEPT ![k] = r.rest]
          /\ qlog' = [qlog EXCEPT ![k] = @ \o PopEvents(r.value)]
          /\ UNCHANGED <<zsets, waiters>>

\* faulty variant: ZRANGE 0 0 alone, the element read is never removed
PriorityQueue_pop_norem(p, k, timeout) ==
  LET results == ZRange00(zsets[k])
  IN /\ Len(qlog[k]) < 2 * MaxPush
     /\ qlog' = [qlog EXCEPT ![k] =
                   @ \o (IF results # <<>>
                         THEN <<Ev("pop", Base_unserialize(results[1]))>>
                         ELSE <<>>)]
     /\ UNCHANGED <<lists, zsets, waiters>>

\* faulty variant: no MULTI/EXEC, so another client's ZADD runs between the ZRANGE
\* and the ZREMRANGEBYRANK
PriorityQueue_pop_nomulti(p, k, timeout) ==
  \E other \in Task :
    LET results == ZRange00(zsets[k])
        between == ZAdd(zsets[k], 0 - other.priority, Base_serialize(other))
        rem == ZRemRangeByRank00(between)
    IN /\ NumOp(qlog[k], "push") < MaxPush
       /\ zsets' = [zsets EXCEPT ![k] = rem.rest]
       /\ qlog' = [qlog EXCEPT ![k] =
                     Append(@, Ev("push", other))
                       \o (IF results # <<>>
                           THEN <<Ev("pop", Base_unserialize(results[1]))>>
                           ELSE <<>>)]
       /\ UNCHANGED <<lists, waiters>>

\* faulty variant: with a timeout the pop waits on an empty sorted set
PriorityQueue_pop_blocking(p, k, timeout) ==
  IF timeout > 0 /\ zsets[k] = {}
  THEN Block(p, k, "bzpopmin")
  ELSE LET results == ZRange00(zsets[k])
           rem == ZRemRangeByRank00(zsets[k])
       IN /\ zsets' = [zsets EXCEPT ![k] = rem.rest]
          /\ qlog' = [qlog EXCEPT ![k] =
                        @ \o (IF results # <<>>
                              THEN <<Ev("pop", Base_unserialize(results[1]))>>
                              ELSE <<>>)]
          /\ UNCHANGED <<lists, waiters>>

\* MULTI; ZRANGE 0 0; ZREMRANGEBYRANK 0 0; EXEC: one step of the server;
\* then `if results: return self._unserialize(results[0])`
PriorityQueue_pop(p, k, timeout) ==
  LET results == ZRange00(zsets[k])
      rem == ZRemRangeByRank00(zsets[k])
  IN /\ zsets' = [zsets EXCEPT ![k] = rem.rest]
     /\ qlog' = [qlog EXCEPT ![k] =
                   @ \o (IF results # <<>> THEN Unserialized(results[1]) ELSE <<>>)]
     /\ UNCHANGED <<lists, waiters>>

\* DEL key
Base_clear(k) ==
  /\ lists' = [lists EXCEPT ![k] = <<>>]
  /\ zsets' = [zsets EXCEPT ![k] = {}]
  /\ qlog' = [qlog EXCEPT ![k] = <<>>]
  /\ UNCHANGED waiters

Queue_push(k, o) ==
  CASE cls[k] = "FifoQueue" -> FifoQueue_push(k, o)
    [] cls[k] = "LifoQueue" -> LifoQueue_push(k, o)
    [] cls[k] = "PriorityQueue" -> PriorityQueue_push(k, o)

Queue_pop(p, k, timeout) ==
  CASE cls[k] = "FifoQueue" -> FifoQueue_pop(p, k, timeout)
    [] cls[k] = "LifoQueue" -> LifoQueue_pop(p, k, timeout)
    [] cls[k] = "PriorityQueue" -> PriorityQueue_pop(p, k, timeout)

\* the events a step appended to a key's log
NewEvents(k) == SubSeq(qlog'[k], Len(qlog[k]) + 1, Len(qlog'[k]))

\* a process is inside a blocking pop
Blocked(p) ==
  \E k \in QKeys : \E i \in 1..Len(waiters[k]) : waiters[k][i].proc = p
\* a process is between two calls
Idle(p) == pc[p] = "idle" /\ ~Blocked(p)
\* calls that have still to run their push
PendingPush == Cardinality({p \in Procs : pc[p] = "enqueue_push"})

\* a process calls queue.push(o)
Push(p, k, o) ==
  /\ Idle(p)
  /\ NumOp(qlog[k], "push") < MaxPush
  /\ Queue_push(k, o)
  /\ UNCHANGED <<cls, df, pc, obj, dflog, enqlog, sched>>

\* a process calls queue.pop(timeout)
Pop(p, k, timeout) ==
  /\ Idle(p)
  /\ Queue_pop(p, k, timeout)
  /\ UNCHANGED <<cls, df, pc, obj, dflog, enqlog, sched>>

\* BRPOP/BLPOP gives up: the call returns None
Timeout(p, k) ==
  /\ \E i \in 1..Len(waiters[k]) :
       /\ waiters[k][i].proc = p
       /\ waiters' = [waiters EXCEPT ![k] =
                        SubSeq(@, 1, i - 1) \o SubSeq(@, i + 1, Len(@))]
  /\ UNCHANGED <<cls, lists, zsets, df, pc, obj, qlog, dflog, enqlog, sched>>

\* a process calls queue.clear()
Clear(p, k) ==
  /\ Idle(p)
  /\ Base_clear(k)
  /\ UNCHANGED <<cls, df, pc, obj, dflog, enqlog, sched>>

NextQueue ==
  \E p \in Procs, k \in QKeys :
    \/ \E o \in Task : Push(p, k, o)
    \/ \E timeout \in Timeouts : Pop(p, k, timeout)
    \/ Timeout(p, k)
    \/ Clear(p, k)

SpecQueue == Init /\ [][NextQueue]_vars

(* ---------------------------- blocking pops ---------------------------- *)
\* a process calls queue.pop(timeout); the server starts the timeout of a
\* BRPOP/BLPOP that blocks
TimedPop(p, k, timeout) ==
  /\ Idle(p)
  /\ Queue_pop(p, k, timeout)
  /\ timer' = [timer EXCEPT ![p] = IF Blocked(p)'
                                   THEN [timeout |-> timeout, waited |-> 0]
                                   ELSE NoTimer]
  /\ ret' = IF Blocked(p)' THEN ret
            ELSE IF NewEvents(k) # <<>> THEN PopRet(timeout, "item")
            ELSE PopRet(timeout, "None")
  /\ UNCHANGED <<cls, df, pc, obj, dflog, enqlog, life, conf>>

\* a client that only pushes; the server drops the timeout of a client it serves
ProducerPush(k, o) ==
  /\ NumOp(qlog[k], "push") < MaxProduce
  /\ Queue_push(k, o)
  /\ timer' = [p \in Procs |-> IF Blocked(p)' THEN timer[p] ELSE NoTimer]
  /\ UNCHANGED <<cls, df, pc, obj, dflog, enqlog, life, conf, ret>>

\* one second passes: no blocked client is at the end of its timeout
Tick ==
  /\ \E p \in Procs : Blocked(p)
  /\ \A p \in Procs : Blocked(p) => timer[p].waited < timer[p].timeout
  /\ timer' = [p \in Procs |->
                 IF Blocked(p) THEN [timer[p] EXCEPT !.waited = @ + 1] ELSE timer[p]]
  /\ UNCHANGED <<cls, lists, zsets, df, waiters, pc, obj, qlog, dflog, enqlog,
                 life, conf, ret>>

\* the timeout of a BRPOP/BLPOP ends: the reply is nil and pop returns None
Expire(p, k) ==
  /\ timer[p].timeout > 0
  /\ timer[p].waited = timer[p].timeout
  /\ \E i \in 1..Len(waiters[k]) :
       /\ waiters[k][i].proc = p
       /\ waiters' = [waiters EXCEPT ![k] =
                        SubSeq(@, 1, i - 1) \o SubSeq(@, i + 1, Len(@))]
  /\ ret' = PopRet(timer[p].timeout, "None")
  /\ timer' = [timer EXCEPT ![p] = NoTimer]
  /\ UNCHANGED <<cls, lists, zsets, df, pc, obj, qlog, dflog, enqlog, life, conf>>

NextBlocking ==
  \/ \E p \in Procs, k \in QKeys :
       \/ \E timeout \in Timeouts : TimedPop(p, k, timeout)
       \/ Expire(p, k)
  \/ \E k \in QKeys, o \in SchedTask : ProducerPush(k, o)
  \/ Tick

SpecBlocking == Init /\ [][NextBlocking]_vars

(* ---------------------------- decode failures ------------------------- *)
\* push of a queue object constructed on the same key with another
\* serializer: LPUSH of its bytes / ZADD of its bytes under -priority
ForeignPush(k, data, priority) ==
  /\ NumOp(qlog[k], "foreign") < MaxForeign
  /\ IF cls[k] = "PriorityQueue"
     THEN /\ zsets' = [zsets EXCEPT ![k] = ZAdd(@, 0 - priority, data)]
          /\ UNCHANGED lists
     ELSE /\ lists' = [lists EXCEPT ![k] = LPush(@, data)]
          /\ UNCHANGED zsets
  /\ qlog' = [qlog EXCEPT ![k] = Append(@, ForeignEv(data))]
  /\ ret' = Ret("push", "None")
  /\ UNCHANGED <<cls, df, waiters, pc, obj, dflog, enqlog, life, conf, timer>>

\* a process calls queue.push(o)
DecodePush(p, k, o) ==
  /\ Idle(p)
  /\ NumOp(qlog[k], "push") < MaxProduce
  /\ Queue_push(k, o)
  /\ ret' = Ret("push", "None")
  /\ UNCHANGED <<cls, df, pc, obj, dflog, enqlog, life, conf, timer>>

\* a process calls queue.pop(): a task, None, or the error loads raised
DecodePop(p, k) ==
  /\ Idle(p)
  /\ Queue_pop(p, k, 0)
  /\ LET got == NewEvents(k)
     IN ret' = IF got = <<>> THEN PopRet(0, "None")
               ELSE IF got[1].op = "error" THEN PopRet(0, "error")
               ELSE PopRet(0, "item")
  /\ UNCHANGED <<cls, df, pc, obj, dflog, enqlog, life, conf, timer>>

NextDecode ==
  \E k \in QKeys :
    \/ \E p \in Procs, o \in SchedTask : DecodePush(p, k, o)
    \/ \E p \in Procs : DecodePop(p, k)
    \/ \E data \in ForeignBytes, o \in SchedTask : ForeignPush(k, data, o.priority)

SpecDecode == Init /\ [][NextDecode]_vars

(* --------------------------- duplicate filter -------------------------- *)
SeenEv(o, seen) == [op |-> "seen", obj |-> o, seen |-> seen]
ClearEv == [op |-> "clear", obj |-> None, seen |-> FALSE]

\* faulty variant: the fingerprint is looked up but never recorded
RFPDupeFilter_obj_seen_noadd(o, seen) ==
  LET fp == obj_fingerprint(o)
  IN /\ seen = (fp \in df)
     /\ df' = df
     /\ dflog' = Append(dflog, SeenEv(o, seen))

\* obj_seen(obj) returning `seen`: one SADD
RFPDupeFilter_obj_seen(o, seen) ==
  LET fp == obj_fingerprint(o)
      r == SAdd(df, fp)
  IN /\ seen = (r.added = 0)
     /\ df' = r.set
     /\ dflog' = Append(dflog, SeenEv(o, seen))

\* faulty variant: clear leaves the fingerprints in place
RFPDupeFilter_clear_noop ==
  /\ df' = df
  /\ dflog' = Append(dflog, ClearEv)

\* clear(): DEL of the dupefilter key
RFPDupeFilter_clear ==
  /\ df' = {}
  /\ dflog' = Append(dflog, ClearEv)

\* a process calls df.obj_seen(o)
ObjSeen(p, o) ==
  /\ Idle(p)
  /\ NumOp(dflog, "seen") < MaxSeen
  /\ \E seen \in BOOLEAN : RFPDupeFilter_obj_seen(o, seen)
  /\ UNCHANGED <<cls, lists, zsets, waiters, pc, obj, qlog, enqlog, sched>>

\* a process calls df.clear()
DfClear(p) ==
  /\ Idle(p)
  /\ NumOp(dflog, "clear") < MaxClear
  /\ RFPDupeFilter_clear
  /\ UNCHANGED <<cls, lists, zsets, waiters, pc, obj, qlog, enqlog, sched>>

NextDupeFilter ==
  \E p \in Procs :
    \/ \E o \in Task : ObjSeen(p, o)
    \/ DfClear(p)

SpecDupeFilter == Init /\ [][NextDupeFilter]_vars

(* ------------------------- DupeFilterScheduler ------------------------- *)
\* the scheduler's queue_key
queue_key == "queue"
EnqEv(o, ok) == [obj |-> o, ok |-> ok]

\* faulty variant: the branch on obj_seen is inverted
DupeFilterScheduler_enqueue_inverted(p, o) ==
  \E seen \in BOOLEAN :
    /\ RFPDupeFilter_obj_seen(o, seen)
    /\ IF ~seen
       THEN /\ enqlog' = Append(enqlog, EnqEv(o, FALSE))
            /\ UNCHANGED <<pc, obj>>
       ELSE /\ pc' = [pc EXCEPT ![p] = "enqueue_push"]
            /\ obj' = [obj EXCEPT ![p] = o]
            /\ UNCHANGED enqlog
    /\ UNCHANGED <<lists, zsets, waiters, qlog>>

\* enqueue(obj) up to its branch: `if self.df.obj_seen(obj)` logs the
\* duplicate and returns False, else the call goes on to the push
DupeFilterScheduler_enqueue(p, o) ==
  \E seen \in BOOLEAN :
    /\ RFPDupeFilter_obj_seen(o, seen)
    /\ IF seen
       THEN /\ enqlog' = Append(enqlog, EnqEv(o, FALSE))
            /\ UNCHANGED <<pc, obj>>
       ELSE /\ pc' = [pc EXCEPT ![p] = "enqueue_push"]
            /\ obj' = [obj EXCEPT ![p] = o]
            /\ UNCHANGED enqlog
    /\ UNCHANGED <<lists, zsets, waiters, qlog>>

\* enqueue(obj), the else branch: self.queue.push(obj); return True
DupeFilterScheduler_enqueue_push(p) ==
  /\ pc[p] = "enqueue_push"
  /\ Queue_push(queue_key, obj[p])
  /\ enqlog' = Append(enqlog, EnqEv(obj[p], TRUE))
  /\ pc' = [pc EXCEPT ![p] = "idle"]
  /\ obj' = [obj EXCEPT ![p] = None]
  /\ UNCHANGED <<df, dflog>>

\* dequeue(): self.queue.pop(self.idle_before_close); the `if obj` test on
\* the result changes nothing in the store
DupeFilterScheduler_dequeue(p, idle_before_close) ==
  /\ Queue_pop(p, queue_key, idle_before_close)
  /\ UNCHANGED <<df, pc, obj, dflog, enqlog>>

\* faulty variant: flush() leaves the dupefilter key alone
DupeFilterScheduler_flush_nodf(p) ==
  /\ RFPDupeFilter_clear_noop
  /\ pc' = [pc EXCEPT ![p] = "flush_queue"]
  /\ UNCHANGED <<lists, zsets, waiters, obj, qlog, enqlog>>

\* flush(): self.df.clear(), then (a second command) self.queue.clear()
DupeFilterScheduler_flush(p) ==
  /\ RFPDupeFilter_clear
  /\ pc' = [pc EXCEPT ![p] = "flush_queue"]
  /\ UNCHANGED <<lists, zsets, waiters, obj, qlog, enqlog>>

DupeFilterScheduler_flush_queue(p) ==
  /\ pc[p] = "flush_queue"
  /\ Base_clear(queue_key)
  /\ pc' = [pc EXCEPT ![p] = "idle"]
  /\ UNCHANGED <<df, obj, dflog, enqlog>>

\* a process calls scheduler.enqueue(o)
Enqueue(p, o) ==
  /\ Idle(p)
  /\ NumOp(dflog, "seen") < MaxSeen
  /\ NumOp(qlog[queue_key], "push") + PendingPush < MaxPush
  /\ DupeFilterScheduler_enqueue(p, o)
  /\ UNCHANGED <<cls, sched>>

EnqueuePush(p) ==
  /\ DupeFilterScheduler_enqueue_push(p)
  /\ UNCHANGED <<cls, sched>>

\* a process calls scheduler.dequeue()
Dequeue(p, idle_before_close) ==
  /\ Idle(p)
  /\ DupeFilterScheduler_dequeue(p, idle_before_close)
  /\ UNCHANGED <<cls, sched>>

\* a process calls scheduler.flush()
Flush(p) ==
  /\ Idle(p)
  /\ NumOp(dflog, "clear") < MaxClear
  /\ DupeFilterScheduler_flush(p)
  /\ UNCHANGED <<cls, sched>>

FlushQueue(p) ==
  /\ DupeFilterScheduler_flush_queue(p)
  /\ UNCHANGED <<cls, sched>>

\* producers and consumers of one DupeFilterScheduler key pair, no flush
NextDupeFilterScheduler ==
  \E p \in Procs :
    \/ \E o \in Task : Enqueue(p, o)
    \/ EnqueuePush(p)
    \/ \E t \in Timeouts : Dequeue(p, t)
    \/ Timeout(p, queue_key)

SpecDupeFilterScheduler == Init /\ [][NextDupeFilterScheduler]_vars

(* ----------------------------- PipeScheduler --------------------------- *)
\* python truth value of a task (`if obj:`): a task whose payload is empty
\* (0, '', an empty container) is false
Truthy(o) == o.body # 0

\* the queue_name arguments callers pass
QueueNames == {"in", "out", "other"}
\* tasks handed to a PipeScheduler
PipeTask == SchedTask

\* the keys other than k keep their contents
OtherKeysUnchanged(ks) ==
  \A k \in Keys \ ks :
    /\ lists'[k] = lists[k] /\ zsets'[k] = zsets[k]
    /\ waiters'[k] = waiters[k] /\ qlog'[k] = qlog[k]

\* enqueue(obj, queue_name): push to the named queue, if any; return True
PipeScheduler_enqueue(p, o, queue_name) ==
  /\ IF queue_name = "in" THEN Queue_push(queue_in_key, o)
     ELSE IF queue_name = "out" THEN Queue_push(queue_out_key, o)
     ELSE UNCHANGED <<lists, zsets, waiters, qlog>>
  /\ ret' = Ret("enqueue", "True")

\* dequeue(queue_name): pop the named queue, if any; `if obj: return obj`
PipeScheduler_dequeue(p, queue_name) ==
  IF queue_name \in {"in", "out"}
  THEN LET k == IF queue_name = "out" THEN queue_out_key ELSE queue_in_key
       IN /\ Queue_pop(p, k, conf.idle_before_close)
          /\ LET got == NewEvents(k)
             IN ret' = IF got # <<>> /\ Truthy(got[1].obj)
                       THEN Ret("dequeue", "item")
                       ELSE Ret("dequeue", "None")
  ELSE /\ UNCHANGED <<lists, zsets, waiters, qlog>>
       /\ ret' = Ret("dequeue", "None")

\* faulty variant: pipe() reads the next item of `in` and leaves it there
PipeScheduler_pipe_peek(p) ==
  LET k == queue_in_key
      l == lists[k]
      data == CASE cls[k] = "PriorityQueue" -> ZRange00(zsets[k])
                [] cls[k] = "FifoQueue" -> IF l = <<>> THEN <<>> ELSE <<l[Len(l)]>>
                [] cls[k] = "LifoQueue" -> IF l = <<>> THEN <<>> ELSE <<l[1]>>
      got == IF data = <<>> THEN <<>> ELSE PopEvents(data[1])
  IN /\ qlog' = [qlog EXCEPT ![k] = @ \o got]
     /\ UNCHANGED <<lists, zsets, waiters>>
     /\ IF got # <<>> /\ Truthy(got[1].obj)
        THEN /\ pc' = [pc EXCEPT ![p] = "pipe_enqueue"]
             /\ obj' = [obj EXCEPT ![p] = got[1].obj]
             /\ UNCHANGED ret
        ELSE /\ ret' = Ret("pipe", "False")
             /\ UNCHANGED <<pc, obj>>

\* pipe(), first command: obj = self.dequeue('in'); `if obj:` goes on to
\* the enqueue, else returns False
PipeScheduler_pipe(p) ==
  /\ Queue_pop(p, queue_in_key, conf.idle_before_close)
  /\ LET got == NewEvents(queue_in_key)
     IN IF got # <<>> /\ Truthy(got[1].obj)
        THEN /\ pc' = [pc EXCEPT ![p] = "pipe_enqueue"]
             /\ obj' = [obj EXCEPT ![p] = got[1].obj]
             /\ UNCHANGED ret
        ELSE /\ ret' = Ret("pipe", "False")
             /\ UNCHANGED <<pc, obj>>

\* pipe(), second command: return self.enqueue(obj, 'out')
PipeScheduler_pipe_enqueue(p) ==
  /\ pc[p] = "pipe_enqueue"
  /\ Queue_push(queue_out_key, obj[p])
  /\ ret' = Ret("pipe", "True")
  /\ pc' = [pc EXCEPT ![p] = "idle"]
  /\ obj' = [obj EXCEPT ![p] = None]

\* pushes recorded on the two keys of the pipe
PipePushes == NumOp(qlog[queue_in_key], "push") + NumOp(qlog[queue_out_key], "push")

\* a process calls scheduler.enqueue(o, queue_name)
PipeEnqueue(p, o, queue_name) ==
  /\ Idle(p)
  /\ PipePushes < MaxPipePush
  /\ PipeScheduler_enqueue(p, o, queue_name)
  /\ UNCHANGED <<cls, df, pc, obj, dflog, enqlog, life, conf, timer>>

\* a process calls scheduler.dequeue(queue_name)
PipeDequeue(p, queue_name) ==
  /\ Idle(p)
  /\ PipeScheduler_dequeue(p, queue_name)
  /\ UNCHANGED <<cls, df, pc, obj, dflog, enqlog, life, conf, timer>>

\* a process calls scheduler.pipe()
Pipe(p) ==
  /\ Idle(p)
  /\ PipeScheduler_pipe(p)
  /\ UNCHANGED <<cls, df, dflog, enqlog, life, conf, timer>>

PipeEnqueueOut(p) ==
  /\ PipeScheduler_pipe_enqueue(p)
  /\ UNCHANGED <<cls, df, dflog, enqlog, life, conf, timer>>

\* the process dies between the two commands of pipe()
PipeCrash(p) ==
  /\ pc[p] = "pipe_enqueue"
  /\ pc' = [pc EXCEPT ![p] = "crashed"]
  /\ UNCHANGED <<cls, lists, zsets, df, waiters, obj, qlog, dflog, enqlog, sched>>

\* opened PipeSchedulers with idle_before_close = 0 on empty keys, whatever
\* the classes of the two queues
InitPipe ==
  /\ cls \in {c \in [Keys -> QueueClasses] : \A k \in QKeys : c[k] = "FifoQueue"}
  /\ EmptyStore
  /\ life = [p \in Procs |-> "opened"]
  /\ conf = DefaultConf("PipeScheduler")

NextPipe ==
  \E p \in Procs :
    \/ \E o \in PipeTask, queue_name \in QueueNames : PipeEnqueue(p, o, queue_name)
    \/ \E queue_name \in QueueNames : PipeDequeue(p, queue_name)
    \/ Pipe(p)
    \/ PipeEnqueueOut(p)
    \/ PipeCrash(p)

SpecPipe == InitPipe /\ [][NextPipe]_vars

\* the one process that runs pipe()
Piper == 1

\* a producer calls scheduler.enqueue(o, 'in')
PipelineEnqueue(p, o) ==
  /\ Idle(p)
  /\ NumOp(qlog[queue_in_key], "push") < MaxProduce
  /\ PipeScheduler_enqueue(p, o, "in")
  /\ UNCHANGED <<cls, df, pc, obj, dflog, enqlog, life, conf, timer>>

\* producers enqueue to `in`, one process pipes (and may die inside pipe()),
\* consumers dequeue from `out`
NextPipeline ==
  \/ \E p \in Procs, o \in PipeTask : PipelineEnqueue(p, o)
  \/ \E p \in Procs : PipeDequeue(p, "out")
  \/ Pipe(Piper)
  \/ PipeEnqueueOut(Piper)
  \/ PipeCrash(Piper)

SpecPipeline == InitPipe /\ [][NextPipeline]_vars

(* ------------------------- scheduler lifecycle ------------------------- *)
\* Scheduler.enqueue: self.queue.push(obj); return True
Scheduler_enqueue(p, o) ==
  /\ Queue_push(queue_key, o)
  /\ ret' = Ret("enqueue", "True")

\* Scheduler.dequeue: obj = self.queue.pop(idle_before_close); `if obj: return obj`
Scheduler_dequeue(p) ==
  /\ Queue_pop(p, queue_key, conf.idle_before_close)
  /\ LET got == NewEvents(queue_key)
     IN ret' = IF got # <<>> /\ Truthy(got[1].obj)
               THEN Ret("dequeue", "item")
               ELSE Ret("dequeue", "None")

\* Scheduler.flush: self.queue.clear()
Scheduler_flush == Base_clear(queue_key) /\ UNCHANGED <<df, dflog>>
\* PipeScheduler.flush: self.queue_in.clear(), then self.queue_out.clear()
PipeScheduler_flush_in == Base_clear(queue_in_key) /\ UNCHANGED <<df, dflog>>
PipeScheduler_flush_out == Base_clear(queue_out_key) /\ UNCHANGED <<df, dflog>>

\* the first and the second command of flush(), by scheduler class
FlushFirst ==
  CASE conf.scheduler = "Scheduler" -> Scheduler_flush
    [] conf.scheduler = "PipeScheduler" -> PipeScheduler_flush_in
    [] conf.scheduler = "DupeFilterScheduler" ->
         RFPDupeFilter_clear /\ UNCHANGED <<lists, zsets, waiters, qlog>>
FlushSecond ==
  CASE conf.scheduler = "PipeScheduler" -> PipeScheduler_flush_out
    [] conf.scheduler = "DupeFilterScheduler" ->
         Base_clear(queue_key) /\ UNCHANGED <<df, dflog>>
\* flush() is two commands
TwoCommands == conf.scheduler # "Scheduler"
\* a flush may start (the log of the dupefilter key is bounded)
MayFlush == conf.scheduler = "DupeFilterScheduler" => NumOp(dflog, "clear") < MaxClear

Unchanged_store == UNCHANGED <<lists, zsets, df, waiters, qlog, dflog>>

\* faulty variant: open() never flushes
Scheduler_open_noflush(p) ==
  /\ life' = [life EXCEPT ![p] = "opened"]
  /\ Unchanged_store
  /\ ret' = Ret("open", "None")
  /\ UNCHANGED pc

\* open(): bind the queue(s); `if self.flush_on_start: self.flush()`
Scheduler_open(p) ==
  /\ life' = [life EXCEPT ![p] = "opened"]
  /\ IF conf.flush_on_start
     THEN /\ FlushFirst
          /\ IF TwoCommands
             THEN pc' = [pc EXCEPT ![p] = "open_flush"] /\ UNCHANGED ret
             ELSE ret' = Ret("open", "None") /\ UNCHANGED pc
     ELSE /\ Unchanged_store
          /\ ret' = Ret("open", "None")
          /\ UNCHANGED pc

Scheduler_open_flush(p) ==
  /\ pc[p] = "open_flush"
  /\ FlushSecond
  /\ pc' = [pc EXCEPT ![p] = "idle"]
  /\ ret' = Ret("open", "None")
  /\ UNCHANGED life

\* faulty variant: close() flushes when persist is set
Scheduler_close_inverted(p) ==
  IF ~conf.persist
  THEN /\ Unchanged_store
       /\ life' = [life EXCEPT ![p] = "closed"]
       /\ ret' = Ret("close", "None")
       /\ UNCHANGED pc
  ELSE /\ FlushFirst
       /\ IF TwoCommands
          THEN pc' = [pc EXCEPT ![p] = "close_flush"] /\ UNCHANGED <<life, ret>>
          ELSE /\ life' = [life EXCEPT ![p] = "closed"]
               /\ ret' = Ret("close", "None")
               /\ UNCHANGED pc

\* close(): `if not self.persist: self.flush()`
Scheduler_close(p) ==
  IF conf.persist
  THEN /\ Unchanged_store
       /\ life' = [life EXCEPT ![p] = "closed"]
       /\ ret' = Ret("close", "None")
       /\ UNCHANGED pc
  ELSE /\ FlushFirst
       /\ IF TwoCommands
          THEN pc' = [pc EXCEPT ![p] = "close_flush"] /\ UNCHANGED <<life, ret>>
          ELSE /\ life' = [life EXCEPT ![p] = "closed"]
               /\ ret' = Ret("close", "None")
               /\ UNCHANGED pc

Scheduler_close_flush(p) ==
  /\ pc[p] = "close_flush"
  /\ FlushSecond
  /\ pc' = [pc EXCEPT ![p] = "idle"]
  /\ life' = [life EXCEPT ![p] = "closed"]
  /\ ret' = Ret("close", "None")

\* a process calls scheduler.open()
Open(p) ==
  /\ Idle(p)
  /\ life[p] # "opened"
  /\ conf.flush_on_start => MayFlush
  /\ Scheduler_open(p)
  /\ UNCHANGED <<cls, obj, enqlog, conf, timer>>

OpenFlush(p) ==
  /\ Scheduler_open_flush(p)
  /\ UNCHANGED <<cls, obj, enqlog, conf, timer>>

\* a process calls scheduler.close()
Close(p) ==
  /\ Idle(p)
  /\ life[p] = "opened"
  /\ ~conf.persist => MayFlush
  /\ Scheduler_close(p)
  /\ UNCHANGED <<cls, obj, enqlog, conf, timer>>

CloseFlush(p) ==
  /\ Scheduler_close_flush(p)
  /\ UNCHANGED <<cls, obj, enqlog, conf, timer>>

\* a call on a scheduler that was never opened: self.queue does not exist
AttributeError(op) ==
  /\ ret' = Ret(op, "error")
  /\ Unchanged_store
  /\ UNCHANGED <<pc, obj, enqlog>>

\* a process calls scheduler.enqueue(o) / enqueue(o, queue_name)
CallEnqueue(p, o, queue_name) ==
  /\ Idle(p)
  /\ IF life[p] = "created"
     THEN AttributeError("enqueue")
     ELSE CASE conf.scheduler = "Scheduler" ->
                 /\ NumOp(qlog[queue_key], "push") < MaxProduce
                 /\ Scheduler_enqueue(p, o)
                 /\ UNCHANGED <<df, dflog, pc, obj, enqlog>>
            [] conf.scheduler = "PipeScheduler" ->
                 /\ PipePushes < MaxProduce
                 /\ PipeScheduler_enqueue(p, o, queue_name)
                 /\ UNCHANGED <<df, dflog, pc, obj, enqlog>>
            [] conf.scheduler = "DupeFilterScheduler" ->
                 /\ NumOp(dflog, "seen") < MaxSeen
                 /\ NumOp(qlog[queue_key], "push") + PendingPush < MaxProduce
                 /\ DupeFilterScheduler_enqueue(p, o)
                 /\ ret' = IF enqlog' # enqlog THEN Ret("enqueue", "False") ELSE ret
  /\ UNCHANGED <<cls, life, conf, timer>>

CallEnqueuePush(p) ==
  /\ DupeFilterScheduler_enqueue_push(p)
  /\ ret' = Ret("enqueue", "True")
  /\ UNCHANGED <<cls, life, conf, timer>>

\* a process calls scheduler.dequeue() / dequeue(queue_name)
CallDequeue(p, queue_name) ==
  /\ Idle(p)
  /\ IF life[p] = "created"
     THEN AttributeError("dequeue")
     ELSE /\ CASE conf.scheduler = "PipeScheduler" -> PipeScheduler_dequeue(p, queue_name)
              [] OTHER -> Scheduler_dequeue(p)
          /\ UNCHANGED <<df, dflog, pc, obj, enqlog>>
  /\ UNCHANGED <<cls, life, conf, timer>>

\* schedulers of one class, constructed from the same settings with
\* idle_before_close = 0, on empty keys (a PipeScheduler's two queues of the
\* same class); none is opened yet
InitLifecycle ==
  /\ conf \in {c \in Confs : c.idle_before_close = 0}
  /\ cls \in {c \in [Keys -> QueueClasses] :
               \A k \in Keys :
                 (IF conf.scheduler = "PipeScheduler" THEN k \in QKeys ELSE k \in PipeKeys)
                   => c[k] = "FifoQueue"}
  /\ cls[queue_in_key] = cls[queue_out_key]
  /\ EmptyStore
  /\ life = [p \in Procs |-> "created"]

\* an earlier and a later scheduler instance
Schedulers == {1, 2}
\* the tasks they enqueue
LifecycleTask == {t \in SchedTask : Truthy(t)}

NextLifecycle ==
  \E p \in Schedulers :
    \/ Open(p)
    \/ OpenFlush(p)
    \/ Close(p)
    \/ CloseFlush(p)
    \/ \E o \in LifecycleTask, queue_name \in {"in", "out"} :
         CallEnqueue(p, o, queue_name)
    \/ CallEnqueuePush(p)
    \/ \E queue_name \in {"in", "out"} : CallDequeue(p, queue_name)

SpecLifecycle == InitLifecycle /\ [][NextLifecycle]_vars

(* ------------- DupeFilterScheduler: flush and store errors ------------- *)
\* faulty variant: a failed push takes the fingerprint back
DupeFilterScheduler_enqueue_push_error_rollback(p) ==
  /\ pc[p] = "enqueue_push"
  /\ df' = df \ {obj_fingerprint(obj[p])}
  /\ pc' = [pc EXCEPT ![p] = "idle"]
  /\ obj' = [obj EXCEPT ![p] = None]
  /\ ret' = Ret("enqueue", "error")
  /\ UNCHANGED <<lists, zsets, waiters, qlog, dflog, enqlog>>

\* enqueue(obj), the else branch when self.queue.push(obj) raises (a store
\* error): the exception leaves enqueue, nothing is pushed or undone
DupeFilterScheduler_enqueue_push_error(p) ==
  /\ pc[p] = "enqueue_push"
  /\ pc' = [pc EXCEPT ![p] = "idle"]
  /\ obj' = [obj EXCEPT ![p] = None]
  /\ ret' = Ret("enqueue", "error")
  /\ UNCHANGED <<lists, zsets, waiters, qlog, df, dflog, enqlog>>

EnqueuePushError(p) ==
  /\ DupeFilterScheduler_enqueue_push_error(p)
  /\ UNCHANGED <<cls, life, conf, timer>>

\* opened DupeFilterSchedulers that do not persist, on empty keys
InitFlush ==
  /\ cls \in {c \in [Keys -> QueueClasses] : \A k \in PipeKeys : c[k] = "FifoQueue"}
  /\ EmptyStore
  /\ life = [p \in Procs |-> "opened"]
  /\ conf = [DefaultConf("DupeFilterScheduler") EXCEPT !.persist = FALSE]

\* enqueue (its push may fail), flush and close on one key pair
NextFlush ==
  \E p \in Schedulers :
    \/ \E o \in SchedTask : CallEnqueue(p, o, "out")
    \/ CallEnqueuePush(p)
    \/ EnqueuePushError(p)
    \/ Flush(p)
    \/ FlushQueue(p)
    \/ Close(p)
    \/ CloseFlush(p)

SpecFlush == InitFlush /\ [][NextFlush]_vars

\* enqueue, flush and close on one key pair, the store never failing
NextFlushRace ==
  \E p \in Schedulers :
    \/ \E o \in SchedTask : CallEnqueue(p, o, "out")
    \/ CallEnqueuePush(p)
    \/ Flush(p)
    \/ FlushQueue(p)
    \/ Close(p)
    \/ CloseFlush(p)

SpecFlushRace == InitFlush /\ [][NextFlushRace]_vars

(* ------------------------------ the system ----------------------------- *)
\* every layer's calls on the shared server; the properties of a layer are
\* checked under that layer's specification
Next ==
  \/ NextQueue
  \/ NextDupeFilter
  \/ NextDupeFilterScheduler
  \/ \E p \in Procs : Flush(p) \/ FlushQueue(p)

Spec == Init /\ [][Next]_vars

(* ----------------------- queue layer: properties ----------------------- *)
IsPrefix(s, t) == Len(s) <= Len(t) /\ SubSeq(t, 1, Len(s)) = s
Count(s, x) == Cardinality({i \in 1..Len(s) : s[i] = x})
Last(s) == s[Len(s)]
\* copies of a task's bytes held under the key
Stored(k, o) ==
  Count(lists[k], Dumps(o)) + Cardinality({e \in zsets[k] : e.member = Dumps(o)})
\* a step that only appends events to the key's log (no DEL)
Extends(k) == IsPrefix(qlog[k], qlog'[k])

\* C1: on a FifoQueue key the items returned by pops, in the server's order,
\* are a prefix of the items pushed, in the server's order.
C1_FifoOrder ==
  \A k \in QKeys : cls[k] = "FifoQueue" => IsPrefix(Popped(k), Pushed(k))

C1_Witness ==
  \E k \in QKeys :
    /\ cls[k] = "FifoQueue"
    /\ Len(Pushed(k)) = 3 /\ Len(Popped(k)) = 3
    /\ Pushed(k)[1] # Pushed(k)[2] /\ Pushed(k)[2] # Pushed(k)[3]

\* every pop event of the log returns the top of the stack the earlier
\* events leave
RECURSIVE StackReplay(_, _)
StackReplay(log, stack) ==
  IF log = <<>> THEN TRUE
  ELSE IF Head(log).op = "push"
       THEN StackReplay(Tail(log), <<Head(log).obj>> \o stack)
       ELSE /\ stack # <<>>
            /\ Head(stack) = Head(log).obj
            /\ StackReplay(Tail(log), Tail(stack))

Prios(s) == [i \in 1..Len(s) |-> s[i].priority]

\* C3: on a PriorityQueue key every pop returns an item whose priority is at
\* least that of every item still stored; pushes of priorities 3, 1, 2
\* followed by three pops return priorities 3, 2, 1.
C3_PriorityOrder ==
  [][\A k \in QKeys :
       cls[k] = "PriorityQueue" =>
         /\ (Extends(k) /\ Len(Popped(k)') = Len(Popped(k)) + 1) =>
              \A e \in zsets'[k] :
                Loads(e.member).priority <= Last(Popped(k)').priority
         /\ (/\ Prios(Pushed(k)') = <<3, 1, 2>>
             /\ Len(qlog'[k]) = 6
             /\ \A i \in 1..3 : qlog'[k][i].op = "push") =>
              Prios(Popped(k)') = <<3, 2, 1>>]_vars

C3_Witness ==
  \E k \in QKeys :
    /\ cls[k] = "PriorityQueue"
    /\ Len(qlog[k]) = 6
    /\ \A i \in 1..3 : qlog[k][i].op = "push"
    /\ Prios(Pushed(k)) = <<3, 1, 2>>
    /\ Prios(Popped(k)) = <<3, 2, 1>>

\* C4: under every queue class a pop returns only items that were pushed,
\* no more often than they were pushed, and each returned item leaves the
\* collection with one stored copy less.
C4_ExactlyOnce ==
  [][\A k \in QKeys :
       Extends(k) =>
         LET new == SubSeq(qlog'[k], Len(qlog[k]) + 1, Len(qlog'[k]))
         IN \A o \in Task :
              /\ Count(new, Ev("pop", o)) > 0 =>
                   Count(qlog'[k], Ev("pop", o)) <= Count(qlog'[k], Ev("push", o))
              /\ Stored(k, o)' <= Stored(k, o) + Count(new, Ev("push", o))
                                               - Count(new, Ev("pop", o))]_vars

C4_Witness ==
  \E k \in QKeys :
    /\ cls[k] = "PriorityQueue"
    /\ Len(Pushed(k)) = 3
    /\ Len(Popped(k)) = 3
    /\ zsets[k] = {}

\* C5: a PriorityQueue pop returns the element of rank 0 it read and removes
\* exactly that element in the same step: nothing else enters or leaves the
\* sorted set, and the returned element is no longer stored.
C5_AtomicPop ==
  [][\A k \in QKeys :
       (cls[k] = "PriorityQueue" /\ Extends(k)
          /\ Len(Popped(k)') = Len(Popped(k)) + 1) =>
         LET data == Dumps(Last(Popped(k)'))
         IN /\ zsets[k] # {}
            /\ ZFirst(zsets[k]).member = data
            /\ zsets'[k] = zsets[k] \ {ZFirst(zsets[k])}
            /\ \A e \in zsets'[k] : e.member # data]_vars

C5_Witness ==
  \E k \in QKeys :
    /\ cls[k] = "PriorityQueue"
    /\ Len(Popped(k)) = 1
    /\ Cardinality(zsets[k]) = 2

\* C8: under every queue class length() equals the pushes minus the pops
\* that returned an item, and each pushed item is either stored or was
\* returned by a pop, also when the same task is pushed more than once.
C8_NoLossNoDup ==
  \A k \in QKeys :
    /\ Queue_len(k) = Len(Pushed(k)) - Len(Popped(k))
    /\ \A o \in Task :
         Count(Pushed(k), o) = Stored(k, o) + Count(Popped(k), o)

\* C9: after two pushes of equal priority to a PriorityQueue, once the
\* collection is empty again both tasks have been returned by pops.
C9_EqualPriorityBothReturned ==
  \A k \in QKeys :
    (/\ cls[k] = "PriorityQueue"
     /\ Len(Pushed(k)) = 2
     /\ Pushed(k)[1].priority = Pushed(k)[2].priority
     /\ zsets[k] = {}) =>
      /\ Len(Popped(k)) = 2
      /\ \A o \in Task : Count(Popped(k), o) = Count(Pushed(k), o)

(* ----------------------- duplicate filter: properties ------------------ *)
\* the events after the last clear
Epoch(log) ==
  LET cs == {i \in 1..Len(log) : log[i].op = "clear"}
      last == IF cs = {} THEN 0 ELSE CHOOSE i \in cs : \A j \in cs : j <= i
  IN SubSeq(log, last + 1, Len(log))

\* event j is an obj_seen of a fingerprint-equal task before event i with no
\* clear between them
SeenEarlier(log, j, i) ==
  /\ j < i
  /\ log[j].op = "seen"
  /\ obj_fingerprint(log[j].obj) = obj_fingerprint(log[i].obj)
  /\ \A c \in (j + 1)..(i - 1) : log[c].op # "clear"

\* C6: among the obj_seen calls on fingerprint-equal tasks between two
\* clears, whatever their order at the server, at most one returns false.
C6_AtMostOneNotSeen ==
  \A i, j \in 1..Len(dflog) :
    (/\ dflog[i].op = "seen" /\ dflog[j].op = "seen"
     /\ SeenEarlier(dflog, j, i)) => dflog[i].seen

C6_Witness ==
  /\ Len(dflog) = 3
  /\ \A i \in 1..3 : dflog[i].op = "seen" /\ dflog[i].obj.body = 0
  /\ dflog[1].obj # dflog[2].obj
  /\ ~dflog[1].seen /\ dflog[2].seen /\ dflog[3].seen

\* C7: obj_seen returns true iff a fingerprint-equal task was presented
\* since the last clear (false the first time, true afterwards, false again
\* after clear), and the set holds exactly the fingerprints presented since
\* the last clear.
C7_SeenIffPresent ==
  /\ \A i \in 1..Len(dflog) :
       dflog[i].op = "seen" =>
         (dflog[i].seen <=> \E j \in 1..(i - 1) : SeenEarlier(dflog, j, i))
  /\ df = {obj_fingerprint(Epoch(dflog)[i].obj) : i \in 1..Len(Epoch(dflog))}

C7_Witness ==
  /\ Len(dflog) = 4
  /\ dflog[1].op = "seen" /\ ~dflog[1].seen
  /\ dflog[2].op = "seen" /\ dflog[2].seen
  /\ dflog[3].op = "clear"
  /\ dflog[4].op = "seen" /\ ~dflog[4].seen
  /\ dflog[1].obj = dflog[2].obj /\ dflog[2].obj = dflog[4].obj

(* -------------------- DupeFilterScheduler: properties ------------------ *)
\* no flush has run on the scheduler's keys
NoFlush == NumOp(dflog, "clear") = 0
\* a fingerprint-equal task was handed to enqueue before
EnqueuedBefore(o) ==
  \E i \in 1..Len(dflog) :
    obj_fingerprint(dflog[i].obj) = obj_fingerprint(o)

\* C10: with no flush, enqueue(X) fails and leaves the queue as it is iff a
\* fingerprint-equal task was enqueued before; otherwise it succeeds and
\* its push makes the queue one longer.  Of enqueue(X); enqueue(X) the call
\* the server sees first succeeds, the other fails, and the queue has
\* length 1 after both.
C10_EnqueueOnce ==
  [][NoFlush' =>
       /\ Len(dflog') = Len(dflog) + 1 =>
            LET e == Last(dflog')
            IN /\ e.seen <=> EnqueuedBefore(e.obj)
               /\ Queue_len(queue_key)' = Queue_len(queue_key)
               /\ e.seen => enqlog' = Append(enqlog, EnqEv(e.obj, FALSE))
               /\ ~e.seen =>
                    /\ enqlog' = enqlog
                    /\ \E p \in Procs :
                         /\ pc[p] = "idle" /\ pc'[p] = "enqueue_push"
                         /\ obj'[p] = e.obj
       /\ Len(enqlog') = Len(enqlog) + 1 /\ Last(enqlog').ok =>
            /\ \E i \in 1..Len(dflog) :
                 dflog[i].obj = Last(enqlog').obj /\ ~dflog[i].seen
            /\ waiters[queue_key] = <<>> =>
                 Queue_len(queue_key)' = Queue_len(queue_key) + 1
       /\ (/\ Len(enqlog') = 2 /\ Len(dflog') = 2
           /\ enqlog'[1].obj = enqlog'[2].obj
           /\ Popped(queue_key)' = <<>>) =>
            /\ ~dflog'[1].seen /\ dflog'[2].seen
            /\ {enqlog'[1].ok, enqlog'[2].ok} = {TRUE, FALSE}
            /\ Queue_len(queue_key)' = 1]_vars

C10_Witness ==
  /\ NoFlush
  /\ Len(enqlog) = 2
  /\ enqlog[1].obj = enqlog[2].obj
  /\ enqlog[1].ok /\ ~enqlog[2].ok
  /\ Queue_len(queue_key) = 1
  /\ Popped(queue_key) = <<>>

(* ------------------------ PipeScheduler: properties -------------------- *)
\* the contents of a key stay as they are in the step
KeyUnchanged(k) == lists'[k] = lists[k] /\ zsets'[k] = zsets[k]
\* steps of pipe(): it returns False; its dequeue took an item; it returns
\* from its enqueue
PipeFails == ret' = Ret("pipe", "False") /\ pc' = pc
PipeTakes(p) == pc[p] = "idle" /\ pc'[p] = "pipe_enqueue"
PipeReturns(p) == pc[p] = "pipe_enqueue" /\ pc'[p] = "idle"

\* C11: pipe() returns failure only when `in` was empty, and then `out` is
\* unchanged; otherwise its dequeue removes exactly one item from `in`, its
\* enqueue stores that same item in `out`, and it returns success.  With
\* in = [X] and out empty, pipe() succeeds and leaves in empty and out = [X].
C11_PipeMovesOne ==
  [][/\ PipeFails =>
          /\ Queue_len(queue_in_key) = 0
          /\ KeyUnchanged(queue_in_key) /\ KeyUnchanged(queue_out_key)
     /\ \A p \in Procs :
          /\ PipeTakes(p) =>
               /\ Queue_len(queue_in_key)' = Queue_len(queue_in_key) - 1
               /\ \E o \in PipeTask :
                    /\ NewEvents(queue_in_key) = <<Ev("pop", o)>>
                    /\ obj'[p] = o
                    /\ Stored(queue_in_key, o)' = Stored(queue_in_key, o) - 1
               /\ KeyUnchanged(queue_out_key)
          /\ PipeReturns(p) =>
               /\ ret' = Ret("pipe", "True")
               /\ \E o \in PipeTask :
                    /\ obj[p] = o
                    /\ NewEvents(queue_out_key) = <<Ev("push", o)>>
                    /\ Stored(queue_out_key, o)' >= 1
                    /\ cls[queue_out_key] # "PriorityQueue" =>
                         Stored(queue_out_key, o)' = Stored(queue_out_key, o) + 1
               /\ KeyUnchanged(queue_in_key)
          /\ (/\ PipeReturns(p)
              /\ Len(qlog[queue_in_key]) = 2 /\ qlog[queue_out_key] = <<>>) =>
               /\ Queue_len(queue_in_key)' = 0
               /\ Queue_len(queue_out_key)' = 1]_vars

\* processes between the two commands of pipe(), and processes that died there
InFlight == {p \in Procs : pc[p] = "pipe_enqueue"}
Crashed == {p \in Procs : pc[p] = "crashed"}
\* a step of some pipe() call, or the death of a process inside pipe()
PipeStep ==
  \/ PipeFails
  \/ \E p \in Procs : PipeTakes(p) \/ PipeReturns(p)
  \/ Crashed' # Crashed

\* C12: pipe() is a two-step transfer: between its dequeue and its enqueue the
\* item is in neither queue but held by the piping process, a crash there
\* loses it, and nothing else loses an item: every step of pipe() keeps
\* len(in) + len(out) + items held in flight + items lost by a crash.
C12_OnlyCrashLoses ==
  [][PipeStep =>
          Queue_len(queue_in_key)' + Queue_len(queue_out_key)'
              + Cardinality(InFlight') + Cardinality(Crashed')
            = Queue_len(queue_in_key) + Queue_len(queue_out_key)
              + Cardinality(InFlight) + Cardinality(Crashed)]_vars

\* a process died between the two commands of pipe() and the item it held
\* is in neither queue
C12_Witness ==
  \E p \in Crashed : \E o \in PipeTask :
    obj[p] = o /\ \A k \in PipeKeys : Stored(k, o) = 0

(* ------------------------ blocking pops: properties -------------------- *)
\* the processes blocked on a key
Waiting(k) == {waiters[k][i].proc : i \in 1..Len(waiters[k])}
\* one second passes in the step
TimePasses == \E p \in Procs : timer'[p].waited > timer[p].waited

\* C13: a FifoQueue / LifoQueue pop(timeout = T > 0) blocks only on an empty
\* queue and for at most T seconds; it returns absent only when T seconds
\* have passed, leaving the queue unchanged; an item pushed while poppers
\* wait is delivered to exactly one of them (the oldest) and removed.
C13_BlockingPop ==
  [][\A k \in QKeys :
       /\ \A p \in Waiting(k)' :
            /\ cls[k] \in {"FifoQueue", "LifoQueue"}
            /\ timer'[p].timeout > 0
            /\ timer'[p].waited <= timer'[p].timeout
            /\ Queue_len(k)' = 0
       /\ \A p \in Waiting(k)' \ Waiting(k) :
            Queue_len(k) = 0 /\ timer'[p].waited = 0
       /\ \A p \in Waiting(k) \ Waiting(k)' :
            qlog'[k] = qlog[k] =>
              /\ timer[p].waited = timer[p].timeout
              /\ ret' = PopRet(timer[p].timeout, "None")
              /\ KeyUnchanged(k)
       /\ (Waiting(k) # {} /\ qlog'[k] # qlog[k]) =>
            /\ \E o \in SchedTask : NewEvents(k) = <<Ev("push", o), Ev("pop", o)>>
            /\ waiters'[k] = Tail(waiters[k])
            /\ KeyUnchanged(k)
       /\ TimePasses =>
            \A p \in Waiting(k) :
              /\ timer[p].waited < timer[p].timeout
              /\ timer'[p].waited = timer[p].waited + 1]_vars

\* two poppers blocked, a push served one of them, the other is at the end
\* of its timeout
C13_Witness ==
  \E k \in QKeys :
    /\ cls[k] = "FifoQueue"
    /\ ret = NoCall
    /\ \E o \in SchedTask : qlog[k] = <<Ev("push", o), Ev("pop", o)>>
    /\ \E p \in Waiting(k) : timer[p].timeout > 0 /\ timer[p].waited = timer[p].timeout

\* C14: PriorityQueue.pop never blocks: whatever the timeout, the pop is the
\* step pop(0) would make; on an empty sorted set it returns absent at once
\* and changes nothing, otherwise it returns and removes the element of
\* rank 0.
C14_PriorityNeverBlocks ==
  [][\A k \in QKeys :
       cls[k] = "PriorityQueue" =>
         /\ Waiting(k)' = {}
         /\ \A p \in Procs, timeout \in Timeouts :
              Queue_pop(p, k, timeout) <=> Queue_pop(p, k, 0)
         /\ (ret'.op = "pop" /\ ret'.res = "None" /\ qlog'[k] = qlog[k]) =>
              zsets[k] = {} /\ zsets'[k] = {}
         /\ (ret'.op = "pop" /\ Len(qlog'[k]) = Len(qlog[k]) + 1
               /\ Last(qlog'[k]).op = "pop") =>
              /\ ret'.res = "item"
              /\ zsets[k] # {}
              /\ Last(qlog'[k]).obj = Loads(ZFirst(zsets[k]).member)
              /\ zsets'[k] = zsets[k] \ {ZFirst(zsets[k])}]_vars

\* a pop with a positive timeout returned an item, a later one returned
\* absent from the empty sorted set, and nobody waits
C14_Witness ==
  \E k \in QKeys :
    /\ cls[k] = "PriorityQueue"
    /\ Len(qlog[k]) = 2 /\ qlog[k][2].op = "pop"
    /\ zsets[k] = {}
    /\ ret.op = "pop" /\ ret.res = "None" /\ ret.timeout > 0
    /\ Waiting(k) = {}

(* ---------------------- scheduler lifecycle: properties ---------------- *)
\* the keys a scheduler of the configured class owns
OwnedKeys == IF conf.scheduler = "PipeScheduler" THEN PipeKeys ELSE QKeys
\* the collection the first / the second command of flush() clears is empty
FirstEmpty ==
  CASE conf.scheduler = "Scheduler" -> Queue_len(queue_key) = 0
    [] conf.scheduler = "PipeScheduler" -> Queue_len(queue_in_key) = 0
    [] conf.scheduler = "DupeFilterScheduler" -> df = {}
SecondEmpty ==
  CASE conf.scheduler = "Scheduler" -> TRUE
    [] conf.scheduler = "PipeScheduler" -> Queue_len(queue_out_key) = 0
    [] conf.scheduler = "DupeFilterScheduler" -> Queue_len(queue_key) = 0
\* every collection of the scheduler is empty
OwnedEmpty ==
  /\ \A k \in OwnedKeys : lists[k] = <<>> /\ zsets[k] = {}
  /\ conf.scheduler = "DupeFilterScheduler" => df = {}
\* nothing in the backing store changes in the step
StoreUnchanged == lists' = lists /\ zsets' = zsets /\ df' = df
\* no scheduler but p has been opened
Alone(p) == \A q \in Procs \ {p} : life[q] = "created"

NoneOpened == \A p \in Procs : life[p] # "opened" /\ pc[p] = "idle"
\* a call reports success
Succeeds == ret' # ret /\ ret'.res \in {"True", "item"}

\* C17: an enqueue or dequeue on a scheduler that is not in the Opened state
\* (never opened, or closed and not opened again) does not succeed and does
\* not modify the backing store.
C17_OnlyOpened ==
  [][(NoneOpened /\ life' = life) => StoreUnchanged /\ ~Succeeds]_vars

\* a Scheduler that does not persist was closed, which emptied its queue, and
\* an enqueue on it afterwards stored a task and returned True
C17_Witness ==
  /\ conf.scheduler = "Scheduler" /\ ~conf.persist
  /\ life[1] = "closed" /\ Alone(1)
  /\ ret = Ret("enqueue", "True")
  /\ Queue_len(queue_key) > 0

\* the step is the first command / the return of flush() or of a flushing close()
FlushStarts(p) == pc[p] = "idle" /\ pc'[p] \in {"flush_queue", "close_flush"}
FlushReturns(p) == pc[p] \in {"flush_queue", "close_flush"} /\ pc'[p] = "idle"
\* the step is an obj_seen on the dupefilter key
SeenStep == Len(dflog') > Len(dflog) /\ Last(dflog').op = "seen"
\* dflog[j] clears the set and dflog[k] is the first lookup after it of its
\* fingerprint
FirstAfterClear(j, k) ==
  /\ j < k /\ dflog[j].op = "clear" /\ dflog[k].op = "seen"
  /\ \A i \in (j + 1)..(k - 1) :
       dflog[i].op = "seen" =>
         obj_fingerprint(dflog[i].obj) # obj_fingerprint(dflog[k].obj)

\* C18: DupeFilterScheduler.flush(), and close() when persist is not set,
\* empties the dedup set with its first command and the queue with its
\* second, so both are empty when it returns unless a fingerprint was
\* recorded in between; the first enqueue of a fingerprint after the dedup
\* set was cleared is admitted (also one that was rejected before): it goes
\* on to the push, stores the task and returns True.
C18_FlushClearsBoth ==
  /\ [](\A j, k \in 1..Len(dflog) : FirstAfterClear(j, k) => ~dflog[k].seen)
  /\ [][/\ \A p \in Procs :
            /\ FlushStarts(p) => df' = {} /\ Last(dflog').op = "clear"
            /\ FlushReturns(p) =>
                 /\ Queue_len(queue_key)' = 0
                 /\ df = {} => df' = {}
            /\ (pc[p] = "enqueue_push" /\ ret' = Ret("enqueue", "True")
                  /\ pc'[p] = "idle") =>
                 \E o \in SchedTask :
                   /\ obj[p] = o
                   /\ Stored(queue_key, o)' >= 1
                   /\ enqlog' = Append(enqlog, EnqEv(o, TRUE))
        /\ (df = {} /\ SeenStep) =>
             /\ ~Last(dflog').seen
             /\ \E q \in Procs :
                  /\ pc[q] = "idle" /\ pc'[q] = "enqueue_push"
                  /\ obj'[q] = Last(dflog').obj]_vars

\* a task was admitted, an equal one rejected as a duplicate, then flush()
\* ran and an enqueue of the task returned True with the task in the queue
C18_Witness ==
  /\ \A p \in Procs : pc[p] = "idle" /\ life[p] = "opened"
  /\ ret = Ret("enqueue", "True")
  /\ Len(enqlog) = 3 /\ enqlog[1].ok /\ ~enqlog[2].ok /\ enqlog[3].ok
  /\ enqlog[2].obj = enqlog[3].obj
  /\ Len(dflog) = 4 /\ dflog[2].seen /\ dflog[3].op = "clear" /\ ~dflog[4].seen
  /\ Queue_len(queue_key) = 1 /\ Stored(queue_key, enqlog[3].obj) = 1
  /\ df = {obj_fingerprint(enqlog[3].obj)}

\* the queues hold what they held
QueuesUnchanged == lists' = lists /\ zsets' = zsets
\* the push of p's enqueue raises in the step
PushFails(p) ==
  pc[p] = "enqueue_push" /\ pc'[p] = "idle" /\ ret' = Ret("enqueue", "error")

\* C19: DupeFilterScheduler.enqueue records the fingerprint with obj_seen
\* before it pushes; a push that fails after obj_seen returned false takes
\* nothing back, so the fingerprint stays recorded while the task is not
\* pushed; an enqueue of a task whose fingerprint is recorded returns False
\* without pushing, and a fingerprint leaves the set only by a clear.
C19_SeenBeforePush ==
  [][/\ \A p \in Procs :
         /\ (pc[p] = "idle" /\ pc'[p] = "enqueue_push") =>
              \E o \in SchedTask :
                /\ obj'[p] = o
                /\ obj_fingerprint(o) \notin df
                /\ df' = df \cup {obj_fingerprint(o)}
                /\ QueuesUnchanged
         /\ PushFails(p) =>
              /\ df' = df
              /\ QueuesUnchanged
              /\ enqlog' = enqlog
     /\ (SeenStep /\ obj_fingerprint(Last(dflog').obj) \in df) =>
          /\ Last(dflog').seen
          /\ pc' = pc
          /\ ret' = Ret("enqueue", "False")
          /\ enqlog' = Append(enqlog, EnqEv(Last(dflog').obj, FALSE))
          /\ QueuesUnchanged
     /\ ~(df \subseteq df') =>
          Len(dflog') > Len(dflog) /\ Last(dflog').op = "clear"]_vars

\* the push of the first enqueue failed: its fingerprint is recorded, the
\* queue is empty, and an enqueue of a fingerprint-equal task returned False
C19_Witness ==
  /\ \A p \in Procs : pc[p] = "idle"
  /\ ret = Ret("enqueue", "False")
  /\ Len(dflog) = 2 /\ dflog[1].op = "seen" /\ ~dflog[1].seen
  /\ dflog[2].op = "seen" /\ dflog[2].seen
  /\ dflog[1].obj # dflog[2].obj
  /\ df = {obj_fingerprint(dflog[1].obj)}
  /\ enqlog = <<EnqEv(dflog[2].obj, FALSE)>>
  /\ qlog[queue_key] = <<>> /\ Queue_len(queue_key) = 0

\* the key a queue_name routes to
KeyOf(queue_name) == IF queue_name = "in" THEN queue_in_key ELSE queue_out_key
\* the step pushed o under the key
PushedTo(k, o) == NewEvents(k) = <<Ev("push", o)>> /\ Stored(k, o)' >= 1

\* C20: PipeScheduler.enqueue(task, which) pushes the task to the queue
\* named by `which` and leaves the other queue unchanged, dequeue(which)
\* pops the queue named by `which` and leaves the other queue unchanged, and
\* an enqueue that returns True has stored the task in one of the two queues.
C20_Routing ==
  [][\A p \in Procs :
       /\ \A o \in PipeTask, queue_name \in {"in", "out"} :
            PipeEnqueue(p, o, queue_name) =>
              /\ PushedTo(KeyOf(queue_name), o)
              /\ OtherKeysUnchanged({KeyOf(queue_name)})
       /\ \A queue_name \in {"in", "out"} :
            PipeDequeue(p, queue_name) =>
              /\ OtherKeysUnchanged({KeyOf(queue_name)})
              /\ Len(NewEvents(KeyOf(queue_name))) <= 1
              /\ \A i \in 1..Len(NewEvents(KeyOf(queue_name))) :
                   NewEvents(KeyOf(queue_name))[i].op = "pop"
       /\ \A o \in PipeTask, queue_name \in QueueNames :
            (PipeEnqueue(p, o, queue_name) /\ ret' = Ret("enqueue", "True")) =>
              \E k \in PipeKeys : PushedTo(k, o)]_vars

\* an enqueue returned True and both queues are empty with nothing ever
\* pushed or popped
C20_Witness ==
  /\ ret = Ret("enqueue", "True")
  /\ \A k \in PipeKeys : qlog[k] = <<>> /\ Queue_len(k) = 0

\* the bytes the next pop of the key takes, on a non-empty key
HeadBytes(k) ==
  CASE cls[k] = "FifoQueue" -> Last(lists[k])
    [] cls[k] = "LifoQueue" -> Head(lists[k])
    [] cls[k] = "PriorityQueue" -> ZFirst(zsets[k]).member
\* the step removed the head of the key and nothing else
HeadRemoved(k) ==
  /\ Queue_len(k)' = Queue_len(k) - 1
  /\ CASE cls[k] = "FifoQueue" ->
            lists'[k] = SubSeq(lists[k], 1, Len(lists[k]) - 1) /\ zsets' = zsets
       [] cls[k] = "LifoQueue" ->
            lists'[k] = Tail(lists[k]) /\ zsets' = zsets
       [] cls[k] = "PriorityQueue" ->
            zsets'[k] = zsets[k] \ {ZFirst(zsets[k])} /\ lists' = lists
  /\ \A k2 \in Keys \ {k} : lists'[k2] = lists[k2] /\ zsets'[k2] = zsets[k2]

\* C21: a pop whose head bytes fail to decode fails with the decode error
\* (it returns neither absent nor a value), has removed exactly that item
\* and leaves every other stored item in place; a pop whose head bytes
\* decode returns that task, so the other items are still returned in the
\* order of the queue class.
C21_DecodeFailure ==
  [][\A p \in Procs, k \in QKeys :
       (DecodePop(p, k) /\ Queue_len(k) > 0) =>
         /\ HeadRemoved(k)
         /\ IF Decodable(HeadBytes(k))
            THEN /\ ret' = PopRet(0, "item")
                 /\ NewEvents(k) = <<Ev("pop", Loads(HeadBytes(k)))>>
            ELSE /\ ret' = PopRet(0, "error")
                 /\ NewEvents(k) = <<DecodeErrorEv(HeadBytes(k))>>]_vars

\* the only thing ever stored under a list key was an empty byte string; a
\* pop removed it and returned None
C21_Witness ==
  \E k \in QKeys :
    /\ cls[k] # "PriorityQueue"
    /\ qlog[k] = <<ForeignEv(<<>>)>>
    /\ lists[k] = <<>>
    /\ ret = PopRet(0, "None")

\* the step popped a task from the key
PoppedFrom(k) == Len(NewEvents(k)) = 1 /\ NewEvents(k)[1].op = "pop"

\* C22: a dequeue returns absent only when the queue held no item: a
\* dequeue on a non-empty queue removes an item and returns it, whatever the
\* task (also one that is false in python), and pipe() goes on to forward
\* every item it removes from `in`.
C22_RemovedIsReturned ==
  [][\A p \in Procs :
       /\ \A queue_name \in {"in", "out"} :
            (PipeDequeue(p, queue_name) /\ Queue_len(KeyOf(queue_name)) > 0) =>
              /\ PoppedFrom(KeyOf(queue_name))
              /\ ret' = Ret("dequeue", "item")
       /\ \A queue_name \in {"in", "out"} :
            (PipeDequeue(p, queue_name) /\ Queue_len(KeyOf(queue_name)) = 0) =>
              /\ NewEvents(KeyOf(queue_name)) = <<>>
              /\ ret' = Ret("dequeue", "None")
       /\ (Pipe(p) /\ Queue_len(queue_in_key) > 0) =>
            /\ PoppedFrom(queue_in_key)
            /\ pc'[p] = "pipe_enqueue"
            /\ \E o \in PipeTask :
                 obj'[p] = o /\ NewEvents(queue_in_key) = <<Ev("pop", o)>>]_vars

\* the only task ever pushed to `in` was popped by a dequeue that returned
\* None
C22_Witness ==
  /\ \A p \in Procs : pc[p] = "idle"
  /\ ret = Ret("dequeue", "None")
  /\ Len(qlog[queue_in_key]) = 2
  /\ qlog[queue_in_key][1].op = "push" /\ qlog[queue_in_key][2].op = "pop"
  /\ qlog[queue_in_key][1].obj = qlog[queue_in_key][2].obj
  /\ qlog[queue_out_key] = <<>>
  /\ Queue_len(queue_in_key) = 0

\* every call has returned
AllReturned == \A p \in Procs : pc[p] = "idle" /\ ~Blocked(p)
\* a task of the fingerprint is in the queue or was returned by a pop
KeptOrReturned(fp) ==
  \E o \in SchedTask :
    /\ obj_fingerprint(o) = fp
    /\ \/ Stored(queue_key, o) >= 1
       \/ \E i \in 1..Len(qlog[queue_key]) : qlog[queue_key][i] = Ev("pop", o)

\* C23: whatever the interleaving of a flush() or a non-persisting close()
\* with enqueues of other processes, once all calls have returned every
\* fingerprint in the dedup set belongs to a task that is in the queue or
\* was returned by a dequeue.
C23_SeenIsKept ==
  AllReturned => \A fp \in df : KeptOrReturned(fp)

\* the dedup set was cleared, then an enqueue was admitted and returned
\* True, and all calls have returned: its fingerprint is recorded and the
\* queue is empty
C23_Witness ==
  /\ AllReturned
  /\ \A p \in Procs : life[p] = "opened"
  /\ Len(dflog) = 2 /\ dflog[1].op = "clear"
  /\ dflog[2].op = "seen" /\ ~dflog[2].seen
  /\ enqlog = <<EnqEv(dflog[2].obj, TRUE)>>
  /\ df = {obj_fingerprint(dflog[2].obj)}
  /\ Queue_len(queue_key) = 0

\* the tasks of a sequence that are true in python, in order
RECURSIVE TruthyOnly(_)
TruthyOnly(seq) ==
  IF seq = <<>> THEN <<>>
  ELSE IF Truthy(Head(seq)) THEN <<Head(seq)>> \o TruthyOnly(Tail(seq))
  ELSE TruthyOnly(Tail(seq))
\* copies of a task in `in`, in `out` and in the hands of a piping process
Copies(o) ==
  Stored(queue_in_key, o) + Stored(queue_out_key, o)
    + Cardinality({p \in Procs : pc[p] \in {"pipe_enqueue", "crashed"} /\ obj[p] = o})
\* items in the two queues and in the hands of a live piping process
InPipe == Queue_len(queue_in_key) + Queue_len(queue_out_key) + Cardinality(InFlight)

\* C24: pipe() never duplicates an item: in every state, the intermediate
\* one of pipe() included, the copies of a task in `in`, in `out` and in
\* flight plus those dequeued from `out` are at most the enqueues of it to
\* `in` (an item enqueued once is in at most one of the two queues), and no
\* step of pipe() increases len(in) + len(out); with one piping process and
\* FIFO queues on both sides the items dequeued from `out` are, in order, a
\* prefix of the forwarded items enqueued to `in`.
C24_NoDupOrder ==
  /\ [](\A o \in PipeTask :
          Copies(o) + Count(Popped(queue_out_key), o) <= Count(Pushed(queue_in_key), o))
  /\ []((cls[queue_in_key] = "FifoQueue" /\ cls[queue_out_key] = "FifoQueue") =>
          /\ IsPrefix(Popped(queue_out_key), Pushed(queue_out_key))
          /\ IsPrefix(Pushed(queue_out_key), TruthyOnly(Popped(queue_in_key)))
          /\ IsPrefix(Popped(queue_in_key), Pushed(queue_in_key)))
  /\ [][PipeStep =>
          /\ InPipe' <= InPipe
          /\ Queue_len(queue_in_key)' + Queue_len(queue_out_key)'
               <= Queue_len(queue_in_key) + Queue_len(queue_out_key) + Cardinality(InFlight)]_vars

\* two different tasks went through FIFO queues: both were enqueued to `in`,
\* piped and dequeued from `out` in the order of their enqueues
C24_Witness ==
  /\ cls[queue_in_key] = "FifoQueue" /\ cls[queue_out_key] = "FifoQueue"
  /\ Len(Pushed(queue_in_key)) = 2
  /\ Pushed(queue_in_key)[1] # Pushed(queue_in_key)[2]
  /\ Popped(queue_out_key) = Pushed(queue_in_key)
  /\ ret = Ret("dequeue", "item")

====
